---- MODULE Spec2Model ----
(***************************************************************************)
(* Model of cprocessing's primitives.cpp: the segment/point/triangle/quad  *)
(* primitives, the ellipse and sphere mesh caches, and the draw calls that *)
(* instance them through the fixed-function matrix stack.                  *)
(*                                                                         *)
(* Numbers.  Coordinates, sizes and matrix entries are doubles in the      *)
(* source.  The model draws them from small integers and represents a real *)
(* v by the integer 2*v (one fractional bit), which is exact for every     *)
(* value the draw calls compute here (halves of integers); FxMul is the    *)
(* product in that representation.                                         *)
(*                                                                         *)
(* Vertices.  A mesh vertex is kept as the angle expression the source     *)
(* feeds to sin/cos: <<i, n>> stands for the angle  c * i / n.             *)
(***************************************************************************)
EXTENDS Integers, Sequences, FiniteSets

\* ---------------------------------------------------------------- bounds
MaxN == 3
MaxRes == 3

\* ------------------------------------------------------------ input sets
ModeValues == {"CENTER", "RADIUS", "CORNER", "CORNERS"}
UnsignedModes == ModeValues \cup {"INVALID"}
AlphaValues == {0, 255}
EllipseArgs == {<<10, 10, 4, 4>>, <<0, 0, 10, 6>>, <<2, 4, 5, 3>>}
Radii == {2, 3}
MatrixModes == {"GL_MODELVIEW", "GL_PROJECTION"}
CallerOffsets == {3}

VARIABLES
    ellipseMode,   \* static unsigned ellipseMode
    ellipseVtx,    \* static std::vector<PVector> ellipseVtx
    ures, vres,    \* static int ures, vres
    sphereVtx,     \* static std::vector<PVector> sphereVtx
    sphereIdx,     \* static std::vector<unsigned> sphereIdx
    fillAlpha,     \* fillColor.rgba[3]
    strokeAlpha,   \* strokeColor.rgba[3]
    matrixMode,    \* backend: current matrix mode
    stack,         \* backend: matrix stack of each matrix mode
    gl,            \* backend calls issued by the most recent call
    outOfRange,    \* containers the most recent call subscripted out of range
    lastCall,      \* the most recent call and its arguments
    configured,    \* arguments of the most recent ellipseDetail / sphereDetail (<<>>: none yet)
    terminated     \* the process was aborted

vars == <<ellipseMode, ellipseVtx, ures, vres, sphereVtx, sphereIdx,
          fillAlpha, strokeAlpha, matrixMode, stack,
          gl, outOfRange, lastCall, configured, terminated>>

cache == <<ellipseMode, ellipseVtx, ures, vres, sphereVtx, sphereIdx>>
colors == <<fillAlpha, strokeAlpha>>

\* ------------------------------------------------------- fixed point, matrices
Fx(v) == 2 * v

FxMul(a, b) == (a * b) \div 2

Identity == [sx |-> Fx(1), sy |-> Fx(1), sz |-> Fx(1), tx |-> 0, ty |-> 0, tz |-> 0]

glTranslate(m, x, y, z) ==
    [m EXCEPT !.tx = @ + FxMul(m.sx, x),
              !.ty = @ + FxMul(m.sy, y),
              !.tz = @ + FxMul(m.sz, z)]

glScale(m, a, b, c) ==
    [m EXCEPT !.sx = FxMul(@, a), !.sy = FxMul(@, b), !.sz = FxMul(@, c)]

Top(s) == s[Len(s)]

glPushMatrix(s) == Append(s, Top(s))

\* Variant: the pop restores nothing.
glPopMatrix_missing(s) == s

glPopMatrix(s) == SubSeq(s, 1, Len(s) - 1)

SetTop(s, m) == [s EXCEPT ![Len(s)] = m]

\* ------------------------------------------------------------ backend log
Call(name, m) ==
    [call |-> name, prim |-> "-", count |-> 0, color |-> "-", polygonMode |-> "-",
     matrix |-> m]

Draw(name, prim, count, color, pmode, m) ==
    [call |-> name, prim |-> prim, count |-> count, color |-> color,
     polygonMode |-> pmode, matrix |-> m]

Called(op, args) == [op |-> op, args |-> args]

\* Variant: default detail levels are seeded at start-up.
Init_defaultDetail ==
    /\ ellipseMode = "CENTER"
    /\ ellipseVtx = <<[ang |-> <<0, 3>>], [ang |-> <<1, 3>>], [ang |-> <<2, 3>>]>>
    /\ ures = 2
    /\ vres = 2
    /\ sphereVtx = <<[theta |-> <<0, 1>>, phi |-> <<0, 1>>],
                     [theta |-> <<0, 1>>, phi |-> <<1, 1>>],
                     [theta |-> <<1, 1>>, phi |-> <<0, 1>>],
                     [theta |-> <<1, 1>>, phi |-> <<1, 1>>]>>
    /\ sphereIdx = <<0, 2, 1, 3>>
    /\ fillAlpha \in AlphaValues
    /\ strokeAlpha \in AlphaValues
    /\ matrixMode = "GL_MODELVIEW"
    /\ stack = [k \in MatrixModes |-> <<Identity>>]
    /\ gl = <<>>
    /\ outOfRange = {}
    /\ lastCall = Called("start", <<>>)
    /\ configured = [ellipse |-> <<>>, sphere |-> <<>>]
    /\ terminated = FALSE

Init ==
    /\ ellipseMode = "CENTER"
    /\ ellipseVtx = <<>>
    /\ ures = 0
    /\ vres = 0
    /\ sphereVtx = <<>>
    /\ sphereIdx = <<>>
    /\ fillAlpha \in AlphaValues
    /\ strokeAlpha \in AlphaValues
    /\ matrixMode = "GL_MODELVIEW"
    /\ stack = [k \in MatrixModes |-> <<Identity>>]
    /\ gl = <<>>
    /\ outOfRange = {}
    /\ lastCall = Called("start", <<>>)
    /\ configured = [ellipse |-> <<>>, sphere |-> <<>>]
    /\ terminated = FALSE

\* ------------------------------------------------- the caller's other calls
callerFill(a) ==
    /\ ~terminated
    /\ fillAlpha' = a
    /\ gl' = <<>>
    /\ outOfRange' = {}
    /\ lastCall' = Called("caller", <<>>)
    /\ UNCHANGED <<cache, strokeAlpha, matrixMode, stack, terminated, configured>>

callerStroke(a) ==
    /\ ~terminated
    /\ strokeAlpha' = a
    /\ gl' = <<>>
    /\ outOfRange' = {}
    /\ lastCall' = Called("caller", <<>>)
    /\ UNCHANGED <<cache, fillAlpha, matrixMode, stack, terminated, configured>>

callerMatrixMode(k) ==
    /\ ~terminated
    /\ matrixMode' = k
    /\ gl' = <<>>
    /\ outOfRange' = {}
    /\ lastCall' = Called("caller", <<>>)
    /\ UNCHANGED <<cache, colors, stack, terminated, configured>>

callerTranslate(d) ==
    /\ ~terminated
    /\ matrixMode = "GL_MODELVIEW"
    /\ Top(stack[matrixMode]) = Identity
    /\ stack' = [stack EXCEPT ![matrixMode] =
                    SetTop(@, glTranslate(Top(@), Fx(d), Fx(d), 0))]
    /\ gl' = <<>>
    /\ outOfRange' = {}
    /\ lastCall' = Called("caller", <<>>)
    /\ UNCHANGED <<cache, colors, matrixMode, terminated, configured>>

callerResetMatrix ==
    /\ ~terminated
    /\ Top(stack[matrixMode]) # Identity
    /\ stack' = [stack EXCEPT ![matrixMode] = SetTop(@, Identity)]
    /\ gl' = <<>>
    /\ outOfRange' = {}
    /\ lastCall' = Called("caller", <<>>)
    /\ UNCHANGED <<cache, colors, matrixMode, terminated, configured>>

\* ------------------------------------------------- line, point, triangle, quad
StrokePrimitive(prim, n) ==
    IF strokeAlpha > 0
    THEN <<Draw("glBegin", prim, n, "strokeColor", "-", Top(stack[matrixMode]))>>
    ELSE <<>>

line ==
    /\ ~terminated
    /\ gl' = StrokePrimitive("GL_LINES", 2)
    /\ outOfRange' = {}
    /\ lastCall' = Called("line", <<>>)
    /\ UNCHANGED <<cache, colors, matrixMode, stack, terminated, configured>>

point ==
    /\ ~terminated
    /\ gl' = StrokePrimitive("GL_POINTS", 1)
    /\ outOfRange' = {}
    /\ lastCall' = Called("point", <<>>)
    /\ UNCHANGED <<cache, colors, matrixMode, stack, terminated, configured>>

FillPass(call, prim, n, m) ==
    IF fillAlpha > 0 THEN <<Draw(call, prim, n, "fillColor", "GL_FILL", m)>> ELSE <<>>

OutlinePass(call, prim, n, m) ==
    IF strokeAlpha > 0 THEN <<Draw(call, prim, n, "strokeColor", "GL_LINE", m)>> ELSE <<>>

triangle ==
    /\ ~terminated
    /\ gl' = FillPass("glDrawArrays", "GL_TRIANGLES", 3, Top(stack[matrixMode]))
             \o OutlinePass("glDrawArrays", "GL_TRIANGLES", 3, Top(stack[matrixMode]))
    /\ outOfRange' = {}
    /\ lastCall' = Called("triangle", <<>>)
    /\ UNCHANGED <<cache, colors, matrixMode, stack, terminated, configured>>

\* Variant: the outline pass is gated by the fill colour's alpha.
quad_outlineGatedByFill ==
    /\ ~terminated
    /\ gl' = FillPass("glDrawArrays", "GL_QUADS", 4, Top(stack[matrixMode]))
             \o (IF fillAlpha > 0
                 THEN <<Draw("glDrawArrays", "GL_QUADS", 4, "strokeColor", "GL_LINE",
                             Top(stack[matrixMode]))>>
                 ELSE <<>>)
    /\ outOfRange' = {}
    /\ lastCall' = Called("quad", <<>>)
    /\ UNCHANGED <<cache, colors, matrixMode, stack, terminated, configured>>

quad ==
    /\ ~terminated
    /\ gl' = FillPass("glDrawArrays", "GL_QUADS", 4, Top(stack[matrixMode]))
             \o OutlinePass("glDrawArrays", "GL_QUADS", 4, Top(stack[matrixMode]))
    /\ outOfRange' = {}
    /\ lastCall' = Called("quad", <<>>)
    /\ UNCHANGED <<cache, colors, matrixMode, stack, terminated, configured>>

\* ------------------------------------------------- vector::operator[] (0)
\* vec[0] on an empty vector is undefined: a build whose operator[] checks the
\* subscript aborts (TRUE), one that does not hands on the stale address (FALSE).
SubscriptOutcomes(vec) == IF Len(vec) = 0 THEN BOOLEAN ELSE {FALSE}

\* ------------------------------------------------------------ ellipseDetail
\* for (unsigned i = 0; i < n; i++) ellipseVtx.push_back(PVector(cos(ang)/2, sin(ang)/2, 0))
\* with ang = M_PI * 2 * i / n, kept as <<i, n>>.
RECURSIVE PushEllipseVtx(_, _, _)
PushEllipseVtx(vtx, i, n) ==
    IF i < n
    THEN PushEllipseVtx(Append(vtx, [ang |-> <<i, n>>]), i + 1, n)
    ELSE vtx

\* Variant: ellipseVtx.clear() is missing.
ellipseDetail_noClear(n) ==
    /\ ~terminated
    /\ ellipseVtx' = PushEllipseVtx(ellipseVtx, 0, n)
    /\ configured' = [configured EXCEPT !.ellipse = <<n>>]
    /\ gl' = <<>>
    /\ outOfRange' = {}
    /\ lastCall' = Called("ellipseDetail", <<n>>)
    /\ UNCHANGED <<ellipseMode, ures, vres, sphereVtx, sphereIdx, colors,
                   matrixMode, stack, terminated>>

ellipseDetail(n) ==
    /\ ~terminated
    /\ ellipseVtx' = PushEllipseVtx(<<>>, 0, n)
    /\ configured' = [configured EXCEPT !.ellipse = <<n>>]
    /\ gl' = <<>>
    /\ outOfRange' = {}
    /\ lastCall' = Called("ellipseDetail", <<n>>)
    /\ UNCHANGED <<ellipseMode, ures, vres, sphereVtx, sphereIdx, colors,
                   matrixMode, stack, terminated>>

\* -------------------------------------------------------------- ellipseMode
\* Variant: the assertion is missing.
cprocessing_ellipseMode_noAssert(mode) ==
    /\ ~terminated
    /\ ellipseMode' = mode
    /\ gl' = <<>>
    /\ outOfRange' = {}
    /\ lastCall' = Called("ellipseMode", <<mode>>)
    /\ UNCHANGED <<ellipseVtx, ures, vres, sphereVtx, sphereIdx, colors,
                   matrixMode, stack, terminated, configured>>

cprocessing_ellipseMode(mode) ==
    /\ ~terminated
    /\ IF mode \in ModeValues
       THEN /\ ellipseMode' = mode
            /\ terminated' = FALSE
       ELSE /\ ellipseMode' = ellipseMode
            /\ terminated' = TRUE
    /\ gl' = <<>>
    /\ outOfRange' = {}
    /\ lastCall' = Called("ellipseMode", <<mode>>)
    /\ UNCHANGED <<ellipseVtx, ures, vres, sphereVtx, sphereIdx, colors,
                   matrixMode, stack, configured>>

\* ------------------------------------------------------------------ ellipse
\* The switch on ::ellipseMode; arguments and results in the 2*v representation.
\* Variant: RADIUS moves the corner but does not double the axes.
ModeAdjust_radiusNotDoubled(mode, x, y, width, height) ==
    CASE mode = "CENTER" ->
            [x |-> x - width \div 2, y |-> y - height \div 2,
             width |-> width, height |-> height]
      [] mode = "RADIUS" ->
            [x |-> x - width, y |-> y - height, width |-> width, height |-> height]
      [] mode = "CORNERS" ->
            [x |-> x, y |-> y, width |-> width - x, height |-> height - y]
      [] OTHER ->
            [x |-> x, y |-> y, width |-> width, height |-> height]

ModeAdjust(mode, x, y, width, height) ==
    CASE mode = "CENTER" ->
            [x |-> x - width \div 2, y |-> y - height \div 2,
             width |-> width, height |-> height]
      [] mode = "RADIUS" ->
            [x |-> x - width, y |-> y - height,
             width |-> FxMul(width, Fx(2)), height |-> FxMul(height, Fx(2))]
      [] mode = "CORNERS" ->
            [x |-> x, y |-> y, width |-> width - x, height |-> height - y]
      [] OTHER ->
            [x |-> x, y |-> y, width |-> width, height |-> height]

ellipse(x, y, width, height) ==
    /\ ~terminated
    /\ \E checked \in SubscriptOutcomes(ellipseVtx) :
        LET a == ModeAdjust(ellipseMode, Fx(x), Fx(y), Fx(width), Fx(height))
            st1 == glPushMatrix(stack["GL_MODELVIEW"])
            m == glTranslate(glScale(glTranslate(Top(st1), a.x, a.y, 0),
                                     a.width, a.height, Fx(1)),
                             1, 1, 0)
            st2 == SetTop(st1, m)
            size == Len(ellipseVtx)
            abort == checked /\ size = 0
            fill == FillPass("glDrawArrays", "GL_POLYGON", size, m)
            outline == IF strokeAlpha > 0
                       THEN <<Draw("glDrawArrays", "GL_LINE_LOOP", size,
                                   "strokeColor", "-", m)>>
                       ELSE <<>>
        IN  /\ matrixMode' = "GL_MODELVIEW"
            /\ outOfRange' = IF size = 0 THEN {"ellipseVtx"} ELSE {}
            /\ terminated' = abort
            /\ IF abort
               THEN /\ stack' = [stack EXCEPT !["GL_MODELVIEW"] = st2]
                    /\ gl' = <<Call("glPushMatrix", Top(st1))>>
               ELSE /\ stack' = [stack EXCEPT !["GL_MODELVIEW"] = glPopMatrix(st2)]
                    /\ gl' = <<Call("glPushMatrix", Top(st1))>> \o fill \o outline
                             \o <<Call("glPopMatrix", Top(glPopMatrix(st2)))>>
    /\ lastCall' = Called("ellipse", <<x, y, width, height>>)
    /\ UNCHANGED <<cache, colors, configured>>

\* ------------------------------------------------------------- sphereDetail
\* The nested loops over itheta < vr and iphi < ur; a vertex keeps the two
\* angle expressions theta = TWO_PI / (vr-1) * itheta, phi = PI / (ur-1) * iphi.
\* With ur = 1 or vr = 1 the step is a floating-point division by zero; the
\* vertex then keeps the expression with denominator 0.
RECURSIVE PushSphereVtx(_, _, _, _, _)
PushSphereVtx(vtx, itheta, iphi, ur, vr) ==
    IF itheta < vr
    THEN IF iphi < ur
         THEN PushSphereVtx(Append(vtx, [theta |-> <<itheta, vr - 1>>,
                                         phi |-> <<iphi, ur - 1>>]),
                            itheta, iphi + 1, ur, vr)
         ELSE PushSphereVtx(vtx, itheta + 1, 0, ur, vr)
    ELSE vtx

\* Variant: the band loop runs to icol < vr.
RECURSIVE PushSphereIdx_extraBand(_, _, _, _, _)
PushSphereIdx_extraBand(idx, icol, irow, ur, vr) ==
    IF icol < vr
    THEN IF irow < ur
         THEN PushSphereIdx_extraBand(Append(Append(idx, icol * ur + irow),
                                             (icol + 1) * ur + irow),
                                      icol, irow + 1, ur, vr)
         ELSE PushSphereIdx_extraBand(idx, icol + 1, 0, ur, vr)
    ELSE idx

\* The nested loops over icol < vr-1 and irow < ur.
RECURSIVE PushSphereIdx(_, _, _, _, _)
PushSphereIdx(idx, icol, irow, ur, vr) ==
    IF icol < vr - 1
    THEN IF irow < ur
         THEN PushSphereIdx(Append(Append(idx, icol * ur + irow),
                                   (icol + 1) * ur + irow),
                            icol, irow + 1, ur, vr)
         ELSE PushSphereIdx(idx, icol + 1, 0, ur, vr)
    ELSE idx

\* Variant: sphereVtx.clear() and sphereIdx.clear() are missing.
sphereDetail_noClear(ur, vr) ==
    /\ ~terminated
    /\ ures' = ur
    /\ vres' = vr
    /\ sphereVtx' = PushSphereVtx(sphereVtx, 0, 0, ur, vr)
    /\ sphereIdx' = PushSphereIdx(sphereIdx, 0, 0, ur, vr)
    /\ configured' = [configured EXCEPT !.sphere = <<ur, vr>>]
    /\ gl' = <<>>
    /\ outOfRange' = {}
    /\ lastCall' = Called("sphereDetail", <<ur, vr>>)
    /\ UNCHANGED <<ellipseMode, ellipseVtx, colors, matrixMode, stack,
                   terminated>>

\* Variant: vres = vr is missing.
sphereDetail_staleVres(ur, vr) ==
    /\ ~terminated
    /\ ures' = ur
    /\ vres' = vres
    /\ sphereVtx' = PushSphereVtx(<<>>, 0, 0, ur, vr)
    /\ sphereIdx' = PushSphereIdx(<<>>, 0, 0, ur, vr)
    /\ configured' = [configured EXCEPT !.sphere = <<ur, vr>>]
    /\ gl' = <<>>
    /\ outOfRange' = {}
    /\ lastCall' = Called("sphereDetail", <<ur, vr>>)
    /\ UNCHANGED <<ellipseMode, ellipseVtx, colors, matrixMode, stack,
                   terminated>>

sphereDetail(ur, vr) ==
    /\ ~terminated
    /\ ures' = ur
    /\ vres' = vr
    /\ sphereVtx' = PushSphereVtx(<<>>, 0, 0, ur, vr)
    /\ sphereIdx' = PushSphereIdx(<<>>, 0, 0, ur, vr)
    /\ configured' = [configured EXCEPT !.sphere = <<ur, vr>>]
    /\ gl' = <<>>
    /\ outOfRange' = {}
    /\ lastCall' = Called("sphereDetail", <<ur, vr>>)
    /\ UNCHANGED <<ellipseMode, ellipseVtx, colors, matrixMode, stack,
                   terminated>>

\* ------------------------------------------------------------------- sphere
\* The backend calls of sphere(): lines 234-261.
sphereDraw(radius) ==
    /\ ~terminated
    /\ \E checked \in SubscriptOutcomes(sphereVtx) \cup SubscriptOutcomes(sphereIdx) :
        LET st1 == glPushMatrix(stack[matrixMode])
            m == glScale(Top(st1), Fx(radius), Fx(radius), Fx(radius))
            st2 == SetTop(st1, m)
            count == ures * (vres - 1) * 2
            noVtx == Len(sphereVtx) = 0
            noIdx == Len(sphereIdx) = 0
            anyPass == fillAlpha > 0 \/ strokeAlpha > 0
            abortAtVtx == checked /\ noVtx
            abortAtIdx == checked /\ ~noVtx /\ noIdx /\ anyPass
            fill == FillPass("glDrawElements", "GL_QUAD_STRIP", count, m)
            outline == OutlinePass("glDrawElements", "GL_QUAD_STRIP", count, m)
        IN  /\ outOfRange' = (IF noVtx THEN {"sphereVtx"} ELSE {})
                             \cup (IF noIdx /\ anyPass /\ ~abortAtVtx
                                   THEN {"sphereIdx"} ELSE {})
            /\ terminated' = (abortAtVtx \/ abortAtIdx)
            /\ IF abortAtVtx \/ abortAtIdx
               THEN /\ stack' = [stack EXCEPT ![matrixMode] = st2]
                    /\ gl' = <<Call("glPushMatrix", Top(st1))>>
               ELSE /\ stack' = [stack EXCEPT ![matrixMode] = glPopMatrix(st2)]
                    /\ gl' = <<Call("glPushMatrix", Top(st1))>> \o fill \o outline
                             \o <<Call("glPopMatrix", Top(glPopMatrix(st2)))>>

\* Variant: an empty sphere mesh is populated on first draw.
sphere_lazyDetail(radius) ==
    /\ sphereDraw(radius)
    /\ lastCall' = Called("sphere", <<radius>>)
    /\ IF Len(sphereVtx) = 0
       THEN /\ ures' = 2
            /\ vres' = 2
            /\ sphereVtx' = PushSphereVtx(<<>>, 0, 0, 2, 2)
            /\ sphereIdx' = PushSphereIdx(<<>>, 0, 0, 2, 2)
       ELSE UNCHANGED <<ures, vres, sphereVtx, sphereIdx>>
    /\ UNCHANGED <<ellipseMode, ellipseVtx, colors, matrixMode, configured>>

sphere(radius) ==
    /\ sphereDraw(radius)
    /\ lastCall' = Called("sphere", <<radius>>)
    /\ UNCHANGED <<cache, colors, matrixMode, configured>>

Next ==
    \/ \E a \in AlphaValues : callerFill(a)
    \/ \E a \in AlphaValues : callerStroke(a)
    \/ \E k \in MatrixModes : callerMatrixMode(k)
    \/ \E d \in CallerOffsets : callerTranslate(d)
    \/ callerResetMatrix
    \/ line
    \/ point
    \/ triangle
    \/ quad
    \/ \E n \in 0..MaxN : ellipseDetail(n)
    \/ \E mode \in UnsignedModes : cprocessing_ellipseMode(mode)
    \/ \E a \in EllipseArgs : ellipse(a[1], a[2], a[3], a[4])
    \/ \E ur \in 0..MaxRes, vr \in 0..MaxRes : sphereDetail(ur, vr)
    \/ \E radius \in Radii : sphere(radius)

Spec == Init /\ [][Next]_vars
\* ===================================================================== claims
DrawCalls == {"glDrawArrays", "glDrawElements", "glBegin"}

IsDraw(e) == e.call \in DrawCalls

Passes == SelectSeq(gl, IsDraw)

PassColors == [k \in 1..Len(Passes) |-> Passes[k].color]

CallsNamed(log, name) == Cardinality({k \in 1..Len(log) : log[k].call = name})

DualPassOps == {"triangle", "quad", "ellipse", "sphere"}
StrokeOnlyOps == {"line", "point"}
DrawOps == DualPassOps \cup StrokeOnlyOps

\* --------------------------------------------------------------------- C1
\* C1: after sphereDetail(ures, vres) with ures >= 2 and vres >= 2, whatever
\* calls came before, the vertex sequence has ures*vres elements, the index
\* sequence has ures*(vres-1)*2 elements and every index is in [0, ures*vres).
C1_SphereDetailSizes ==
    (lastCall.op = "sphereDetail" /\ lastCall.args[1] >= 2 /\ lastCall.args[2] >= 2)
    => LET u == lastCall.args[1]
           v == lastCall.args[2]
       IN  /\ Len(sphereVtx) = u * v
           /\ Len(sphereIdx) = u * (v - 1) * 2
           /\ \A k \in 1..Len(sphereIdx) : sphereIdx[k] \in 0..(u * v - 1)

C1_Witness ==
    /\ lastCall = Called("sphereDetail", <<2, 3>>)
    /\ Len(sphereVtx) = 6
    /\ Len(sphereIdx) = 8
    /\ configured.ellipse # <<>>

\* --------------------------------------------------------------------- C2
\* C2: the ellipse mesh always is the complete mesh of the most recent
\* ellipseDetail(n): exactly n vertices, vertex i being the one generated for
\* angle index i of n, in order, with nothing left of an earlier mesh.
C2_EllipseMeshRegenerated ==
    /\ configured.ellipse # <<>> => Len(ellipseVtx) = configured.ellipse[1]
    /\ \A k \in 1..Len(ellipseVtx) :
          ellipseVtx[k] = [ang |-> <<k - 1, Len(ellipseVtx)>>]

C2_Witness ==
    /\ lastCall = Called("ellipseDetail", <<3>>)
    /\ ellipseVtx = <<[ang |-> <<0, 3>>], [ang |-> <<1, 3>>], [ang |-> <<2, 3>>]>>

\* --------------------------------------------------------------------- C3
\* C3: a call of ellipseMode with a value outside {CENTER, RADIUS, CORNER,
\* CORNERS} aborts the process and leaves the stored mode as it was; a call
\* with one of the four stores exactly that mode and does not abort.
C3_EllipseModeFailsFast ==
    [][lastCall'.op = "ellipseMode"
       => IF lastCall'.args[1] \in ModeValues
          THEN ellipseMode' = lastCall'.args[1] /\ ~terminated'
          ELSE terminated' /\ ellipseMode' = ellipseMode]_vars

C3_Witness ==
    /\ lastCall = Called("ellipseMode", <<"INVALID">>)
    /\ terminated
    /\ ellipseMode = "RADIUS"

\* --------------------------------------------------------------------- C4
\* C4: a draw call that has returned emitted, for triangle, quad, ellipse and
\* sphere, one fill pass iff fill alpha > 0 followed by one outline pass iff
\* stroke alpha > 0, and nothing else; for line and point, one stroke-coloured
\* primitive iff stroke alpha > 0 and never a fill pass.
C4_AlphaGatedPasses ==
    ~terminated =>
        /\ lastCall.op \in DualPassOps =>
              PassColors = (IF fillAlpha > 0 THEN <<"fillColor">> ELSE <<>>)
                           \o (IF strokeAlpha > 0 THEN <<"strokeColor">> ELSE <<>>)
        /\ lastCall.op \in StrokeOnlyOps =>
              PassColors = (IF strokeAlpha > 0 THEN <<"strokeColor">> ELSE <<>>)

C4_Witness ==
    /\ lastCall.op = "quad"
    /\ fillAlpha = 255
    /\ strokeAlpha = 0
    /\ PassColors = <<"fillColor">>

\* --------------------------------------------------------------------- C5
\* C5: every pass of ellipse(x, y, width, height) is drawn under a transform
\* that maps the unit mesh extent [-0.5, 0.5]^2 onto the rectangle the active
\* mode prescribes (placed by the caller's current model transform):
\* CENTER [x-w/2, x+w/2] x [y-h/2, y+h/2], RADIUS [x-w, x+w] x [y-h, y+h],
\* CORNERS corners (x, y) and (w, h), CORNER [x, x+w] x [y, y+h].
\* Corners are compared in the 2*v representation.
ModeRectangle(mode, x, y, w, h) ==
    CASE mode = "CENTER" ->
            [x |-> {2 * x - w, 2 * x + w}, y |-> {2 * y - h, 2 * y + h}]
      [] mode = "RADIUS" ->
            [x |-> {2 * x - 2 * w, 2 * x + 2 * w}, y |-> {2 * y - 2 * h, 2 * y + 2 * h}]
      [] mode = "CORNERS" ->
            [x |-> {2 * x, 2 * w}, y |-> {2 * y, 2 * h}]
      [] mode = "CORNER" ->
            [x |-> {2 * x, 2 * x + 2 * w}, y |-> {2 * y, 2 * y + 2 * h}]

MeshExtent(m) ==
    [x |-> {m.tx + FxMul(m.sx, -1), m.tx + FxMul(m.sx, 1)},
     y |-> {m.ty + FxMul(m.sy, -1), m.ty + FxMul(m.sy, 1)}]

PlacedBy(base, rect) ==
    [x |-> {base.tx + FxMul(base.sx, c) : c \in rect.x},
     y |-> {base.ty + FxMul(base.sy, c) : c \in rect.y}]

C5_EllipsePlacement ==
    lastCall.op = "ellipse" =>
        \A k \in 1..Len(Passes) :
            MeshExtent(Passes[k].matrix)
              = PlacedBy(Top(stack["GL_MODELVIEW"]),
                         ModeRectangle(ellipseMode, lastCall.args[1], lastCall.args[2],
                                       lastCall.args[3], lastCall.args[4]))

C5_Witness ==
    /\ lastCall = Called("ellipse", <<10, 10, 4, 4>>)
    /\ Len(ellipseVtx) = 3
    /\ ellipseMode = "RADIUS"
    /\ Top(stack["GL_MODELVIEW"]) = Identity
    /\ Len(Passes) = 2
    /\ MeshExtent(Passes[1].matrix) = [x |-> {12, 28}, y |-> {12, 28}]

\* --------------------------------------------------------------------- C6
\* C6: no draw call changes the ellipse mesh, the sphere vertex and index
\* sequences, ures, vres or the ellipse mode; each pass of sphere(radius) is
\* drawn with the caller's transform scaled by radius.
C6_DrawLeavesCache ==
    [][lastCall'.op \in DrawOps
       => /\ UNCHANGED cache
          /\ lastCall'.op = "sphere" =>
                LET r == Fx(lastCall'.args[1])
                    log == SelectSeq(gl', IsDraw)
                IN  \A k \in 1..Len(log) :
                        log[k].matrix = glScale(Top(stack[matrixMode]), r, r, r)]_vars

C6_Witness ==
    /\ lastCall = Called("sphere", <<3>>)
    /\ Len(sphereVtx) = 6
    /\ Len(Passes) = 2
    /\ Passes[1].matrix.sx = Fx(3)

\* --------------------------------------------------------------------- C7
\* C7: the sequences sphereDetail(u, v) leaves are a function of (u, v) alone,
\* and a second sphereDetail(u, v) right after the first leaves both sequences
\* as the first left them.
GridVertex(j, u, v) == [theta |-> <<j \div u, v - 1>>, phi |-> <<j % u, u - 1>>]

SphereGrid(u, v) == [k \in 1..(u * v) |-> GridVertex(k - 1, u, v)]

StripIndices(u, v) ==
    [k \in 1..(u * (v - 1) * 2) |->
        ((k - 1) \div 2) + (IF k % 2 = 1 THEN 0 ELSE u)]

C7_SphereDetailPure ==
    [][lastCall'.op = "sphereDetail"
       => /\ sphereVtx' = SphereGrid(lastCall'.args[1], lastCall'.args[2])
          /\ sphereIdx' = StripIndices(lastCall'.args[1], lastCall'.args[2])
          /\ (lastCall.op = "sphereDetail" /\ lastCall.args = lastCall'.args)
                => (sphereVtx' = sphereVtx /\ sphereIdx' = sphereIdx)]_vars

C7_Witness ==
    /\ lastCall = Called("sphereDetail", <<3, 3>>)
    /\ Len(sphereVtx) = 9
    /\ Len(sphereIdx) = 12

C9_TransformRestored ==
    [][(lastCall'.op \in {"ellipse", "sphere"} /\ ~terminated')
       => /\ stack' = stack
          /\ CallsNamed(gl', "glPushMatrix") = 1
          /\ CallsNamed(gl', "glPopMatrix") = 1
          /\ gl'[1].call = "glPushMatrix"
          /\ gl'[Len(gl')].call = "glPopMatrix"]_vars

C9_Witness ==
    /\ lastCall.op = "ellipse"
    /\ Len(ellipseVtx) = 3
    /\ ~terminated
    /\ fillAlpha = 0
    /\ strokeAlpha = 255
    /\ Len(gl) = 3
    /\ gl[2].matrix # Top(stack["GL_MODELVIEW"])
    /\ Top(stack["GL_MODELVIEW"]) # Identity

\* -------------------------------------------------------------------- C10
\* C10: at start, and whenever the most recent sphereDetail had ures >= 2 and
\* vres >= 2, the count sphere() hands to the backend, ures*(vres-1)*2 from
\* the stored ures and vres, is the length of the index sequence; the pair at
\* position 2*(icol*ures+irow) is icol*ures+irow, (icol+1)*ures+irow; and
\* every index names a vertex of the vertex sequence.
C10_IndexCountMatches ==
    (configured.sphere = <<>>
        \/ (configured.sphere[1] >= 2 /\ configured.sphere[2] >= 2))
    => /\ ures * (vres - 1) * 2 = Len(sphereIdx)
       /\ \A icol \in 0..(vres - 2), irow \in 0..(ures - 1) :
             /\ sphereIdx[2 * (icol * ures + irow) + 1] = icol * ures + irow
             /\ sphereIdx[2 * (icol * ures + irow) + 2] = (icol + 1) * ures + irow
       /\ \A k \in 1..Len(sphereIdx) : sphereIdx[k] \in 0..(Len(sphereVtx) - 1)
       /\ lastCall.op = "sphere" =>
             \A k \in 1..Len(Passes) : Passes[k].count = Len(sphereIdx)

C10_Witness ==
    /\ lastCall.op = "sphere"
    /\ configured.sphere = <<2, 3>>
    /\ Len(Passes) = 2
    /\ Passes[1].count = 8
    /\ sphereIdx = <<0, 2, 1, 3, 2, 4, 3, 5>>
====
